---- MODULE Spec2Model ----
(***************************************************************************)
(* Transfer shapes of the authentication API (api/schemas.py): the three   *)
(* pydantic models UserCreate, Token and UserOut, their construction from  *)
(* a mapping or (UserOut) from an object's attributes, and their           *)
(* serialization with model_dump.                                          *)
(*                                                                         *)
(* The module uses pydantic v2 semantics: the Config key from_attributes   *)
(* (schemas.py line 19) exists only there.  Under v2 a `str` field takes   *)
(* text only, a field with a default is optional, every failing field is   *)
(* collected into one ValidationError, and keys that are not declared      *)
(* fields are ignored.                                                     *)
(***************************************************************************)
EXTENDS Integers, Sequences, FiniteSets, TLC

VARIABLES cls, source, pc, record, errors, dumps

vars == <<cls, source, pc, record, errors, dumps>>

----------------------------------------------------------------------------
(* Bounds of the explored inputs.                                          *)

\* longest text drawn for an input value
MaxTextLen == 1

\* number of serializations of one record that are followed
MaxDumps == 2

\* characters the input texts are made of; "@" separates e-mail parts
Chars == {"a", "@"}

\* the non-text input value (the integer of UserCreate(email=123))
IntInputs == {123}

----------------------------------------------------------------------------
(* Python values: None, str (a sequence of characters) and int.            *)

None == [kind |-> "none", s |-> <<>>, n |-> 0]

Str(t) == [kind |-> "str", s |-> t, n |-> 0]

IntVal(i) == [kind |-> "int", s |-> <<>>, n |-> i]

Texts == UNION {[1..k -> Chars] : k \in 0..MaxTextLen}

Values == {None} \cup {Str(t) : t \in Texts} \cup {IntVal(i) : i \in IntInputs}

\* the empty mapping
EmptyMap == [k \in {} |-> None]

\* mappings from any subset of keys to values of vs
MapsOver(keys, vs) == UNION {[D -> vs] : D \in SUBSET keys}

\* m restricted to the keys in D
Restrict(m, D) == [k \in D \cap DOMAIN m |-> m[k]]

----------------------------------------------------------------------------
(* The declarations of schemas.py.  A field is required when it has no     *)
(* default, nullable when its annotation is `str | None`.                  *)

bearer == <<"b", "e", "a", "r", "e", "r">>

\* UserCreate with `name: str` declared without a default
UserCreateFields_NameRequired == <<
    [name |-> "email",    required |-> TRUE,  nullable |-> FALSE, default |-> None],
    [name |-> "password", required |-> TRUE,  nullable |-> FALSE, default |-> None],
    [name |-> "name",     required |-> TRUE,  nullable |-> TRUE,  default |-> None],
    [name |-> "role",     required |-> FALSE, nullable |-> TRUE,  default |-> None] >>

\* UserCreate with `password: str = ""`
UserCreateFields_PasswordDefaulted == <<
    [name |-> "email",    required |-> TRUE,  nullable |-> FALSE, default |-> None],
    [name |-> "password", required |-> FALSE, nullable |-> FALSE, default |-> Str(<<>>)],
    [name |-> "name",     required |-> FALSE, nullable |-> TRUE,  default |-> None],
    [name |-> "role",     required |-> FALSE, nullable |-> TRUE,  default |-> None] >>

UserCreateFields == <<
    [name |-> "email",    required |-> TRUE,  nullable |-> FALSE, default |-> None],
    [name |-> "password", required |-> TRUE,  nullable |-> FALSE, default |-> None],
    [name |-> "name",     required |-> FALSE, nullable |-> TRUE,  default |-> None],
    [name |-> "role",     required |-> FALSE, nullable |-> TRUE,  default |-> None] >>

\* Token with `token_type: str = "Bearer"`
TokenFields_CapitalBearer == <<
    [name |-> "access_token", required |-> TRUE,  nullable |-> FALSE, default |-> None],
    [name |-> "token_type",   required |-> FALSE, nullable |-> FALSE,
     default |-> Str(<<"B", "e", "a", "r", "e", "r">>)] >>

\* Token with `token_type: str | None = "bearer"`
TokenFields_NullableType == <<
    [name |-> "access_token", required |-> TRUE,  nullable |-> FALSE, default |-> None],
    [name |-> "token_type",   required |-> FALSE, nullable |-> TRUE,  default |-> Str(bearer)] >>

TokenFields == <<
    [name |-> "access_token", required |-> TRUE,  nullable |-> FALSE, default |-> None],
    [name |-> "token_type",   required |-> FALSE, nullable |-> FALSE, default |-> Str(bearer)] >>

UserOutFields == <<
    [name |-> "email", required |-> TRUE,  nullable |-> FALSE, default |-> None],
    [name |-> "name",  required |-> FALSE, nullable |-> TRUE,  default |-> None],
    [name |-> "role",  required |-> FALSE, nullable |-> TRUE,  default |-> None] >>

\* configuration of a BaseModel subclass that declares no Config
ConfigDefaults == [from_attributes |-> FALSE, extra |-> "ignore"]

\* UserOut without its class Config
UserOutConfig_NoFromAttributes == ConfigDefaults

\* UserOut whose Config also keeps undeclared keys
UserOutConfig_ExtraAllow == [from_attributes |-> TRUE, extra |-> "allow"]

\* class Config of UserOut
UserOutConfig == [ConfigDefaults EXCEPT !.from_attributes = TRUE]

Classes == {"UserCreate", "Token", "UserOut"}

model_fields(c) ==
    CASE c = "UserCreate" -> UserCreateFields
      [] c = "Token"      -> TokenFields
      [] c = "UserOut"    -> UserOutFields

model_config(c) ==
    IF c = "UserOut" THEN UserOutConfig ELSE ConfigDefaults

FieldNames(fields) == {fields[i].name : i \in DOMAIN fields}

----------------------------------------------------------------------------
(* Validation (BaseModel.__init__ / BaseModel.model_validate).             *)

\* decimal digits of a natural number, as str(n) writes them
Digits == <<"0", "1", "2", "3", "4", "5", "6", "7", "8", "9">>

RECURSIVE ToStr(_)
ToStr(i) ==
    IF i < 10 THEN <<Digits[i + 1]>>
              ELSE Append(ToStr(i \div 10), Digits[(i % 10) + 1])

\* a `str` validator that coerces an int to its decimal text
str_validator_lax(v) ==
    IF v.kind = "str" THEN [ok |-> TRUE, value |-> v]
    ELSE IF v.kind = "int" THEN [ok |-> TRUE, value |-> Str(ToStr(v.n))]
    ELSE [ok |-> FALSE, value |-> v]

\* a `str` validator that also demands the "@" of an e-mail address
str_validator_email(v) ==
    IF v.kind = "str" /\ \E i \in DOMAIN v.s : v.s[i] = "@"
    THEN [ok |-> TRUE, value |-> v]
    ELSE [ok |-> FALSE, value |-> v]

\* the validator of the annotation `str`: text passes unchanged, anything
\* else is a string_type error
str_validator(v) ==
    IF v.kind = "str" THEN [ok |-> TRUE, value |-> v]
                      ELSE [ok |-> FALSE, value |-> v]

\* the validator of one field: `str | None` also takes None
validate_field(f, v) ==
    IF f.nullable /\ v.kind = "none" THEN [ok |-> TRUE, value |-> v]
                                     ELSE str_validator(v)

\* one line of a ValidationError: the path of the field and the error type
ErrorLine(name, type) == [loc |-> <<name>>, type |-> type]

\* validation that stops at the first failing field, in declaration order
field_errors_first(fields, data) ==
    LET bad == {j \in DOMAIN fields :
                  \/ fields[j].required /\ fields[j].name \notin DOMAIN data
                  \/ /\ fields[j].name \in DOMAIN data
                     /\ ~validate_field(fields[j], data[fields[j].name]).ok}
    IN  IF bad = {} THEN {}
        ELSE LET j == CHOOSE m \in bad : \A o \in bad : m <= o
             IN  {ErrorLine(fields[j].name,
                    IF fields[j].name \in DOMAIN data THEN "string_type" ELSE "missing")}

\* the lines for the declared fields: every missing required field and
\* every present field whose value fails its validator
field_errors(fields, data) ==
    {ErrorLine(fields[i].name, "missing") :
        i \in {j \in DOMAIN fields :
                 fields[j].required /\ fields[j].name \notin DOMAIN data}}
    \cup
    {ErrorLine(fields[i].name, "string_type") :
        i \in {j \in DOMAIN fields :
                 /\ fields[j].name \in DOMAIN data
                 /\ ~validate_field(fields[j], data[fields[j].name]).ok}}

\* the lines for keys that are no declared field (only when extra = forbid)
extra_errors(fields, config, data) ==
    IF config.extra = "forbid"
    THEN {ErrorLine(k, "extra_forbidden") : k \in DOMAIN data \ FieldNames(fields)}
    ELSE {}

\* the values of the record: the validated input, or the default
field_values(fields, data) ==
    [k \in FieldNames(fields) |->
        LET f == CHOOSE g \in {fields[i] : i \in DOMAIN fields} : g.name = k
        IN  IF k \in DOMAIN data THEN validate_field(f, data[k]).value
                                 ELSE f.default]

\* the undeclared keys the record keeps (only when extra = allow)
extra_values(fields, config, data) ==
    IF config.extra = "allow"
    THEN Restrict(data, DOMAIN data \ FieldNames(fields))
    ELSE EmptyMap

NoRecord == [values |-> EmptyMap, extra |-> EmptyMap]

\* construction of a model from a source: a mapping, or an object whose
\* attributes are read when the class sets from_attributes
model_validate(fields, config, src) ==
    IF src.form = "object" /\ ~config.from_attributes
    THEN [ok |-> FALSE, record |-> NoRecord,
          errors |-> {[loc |-> <<>>, type |-> "model_type"]}]
    ELSE LET errs == field_errors(fields, src.data)
                       \cup extra_errors(fields, config, src.data)
         IN  IF errs # {}
             THEN [ok |-> FALSE, record |-> NoRecord, errors |-> errs]
             ELSE [ok |-> TRUE,
                   record |-> [values |-> field_values(fields, src.data),
                               extra  |-> extra_values(fields, config, src.data)],
                   errors |-> {}]

\* BaseModel.model_dump: the mapping of field names (and kept extras) to
\* the record's values
model_dump(rec) ==
    [k \in DOMAIN rec.values \cup DOMAIN rec.extra |->
        IF k \in DOMAIN rec.values THEN rec.values[k] ELSE rec.extra[k]]

----------------------------------------------------------------------------
(* Inputs.                                                                 *)

\* a key that is no field of the class; for UserOut it is the password of
\* the internal user object
ExtraKey(c) ==
    CASE c = "UserCreate" -> "is_admin"
      [] c = "Token"      -> "expires_in"
      [] c = "UserOut"    -> "password"

ExtraValue == Str(<<"a">>)

Sources(c) ==
    {[form |-> fm, data |-> d @@ x] :
        fm \in {"mapping", "object"},
        d \in MapsOver(FieldNames(model_fields(c)), Values),
        x \in {EmptyMap, ExtraKey(c) :> ExtraValue}}

----------------------------------------------------------------------------
(* The state machine: one source is drawn, a record of one class is        *)
(* constructed from it, and the record is serialized.                      *)

Init ==
    /\ cls \in Classes
    /\ source \in Sources(cls)
    /\ pc = "new"
    /\ record = NoRecord
    /\ errors = {}
    /\ dumps = <<>>

Construct(c) ==
    /\ pc = "new"
    /\ cls = c
    /\ LET r == model_validate(model_fields(c), model_config(c), source)
       IN  /\ pc' = IF r.ok THEN "constructed" ELSE "failed"
           /\ record' = r.record
           /\ errors' = r.errors
    /\ UNCHANGED <<cls, source, dumps>>

ConstructUserCreate == Construct("UserCreate")

ConstructToken == Construct("Token")

ConstructUserOut == Construct("UserOut")

\* a serialization that moves the values out of the record
Serialize_Draining ==
    /\ pc = "constructed"
    /\ Len(dumps) < MaxDumps
    /\ dumps' = Append(dumps, model_dump(record))
    /\ record' = [record EXCEPT !.values = [k \in DOMAIN @ |-> None]]
    /\ UNCHANGED <<cls, source, pc, errors>>

Serialize ==
    /\ pc = "constructed"
    /\ Len(dumps) < MaxDumps
    /\ dumps' = Append(dumps, model_dump(record))
    /\ UNCHANGED <<cls, source, pc, record, errors>>

Next ==
    \/ ConstructUserCreate
    \/ ConstructToken
    \/ ConstructUserOut
    \/ Serialize

Spec == Init /\ [][Next]_vars

----------------------------------------------------------------------------
(* Vocabulary of the properties.                                           *)

Built == pc # "new"

FromMapping == source.form = "mapping"

FromObject == source.form = "object"

Has(k) == k \in DOMAIN source.data

IsText(k) == Has(k) /\ source.data[k].kind = "str"

IsNull(k) == Has(k) /\ source.data[k].kind = "none"

TextOrNullOrOmitted(k) == ~Has(k) \/ source.data[k].kind \in {"str", "none"}

Cites(k) == \E e \in errors : e.loc = <<k>>

Missing(k) == [loc |-> <<k>>, type |-> "missing"] \in errors

\* the fields the data model calls required, and those that may be null
RequiredOf(c) ==
    CASE c = "UserCreate" -> {"email", "password"}
      [] c = "Token"      -> {"access_token"}
      [] c = "UserOut"    -> {"email"}

NullableOf(c) ==
    CASE c = "UserCreate" -> {"name", "role"}
      [] c = "Token"      -> {}
      [] c = "UserOut"    -> {"name", "role"}

DeclaredOf(c) ==
    CASE c = "UserCreate" -> {"email", "password", "name", "role"}
      [] c = "Token"      -> {"access_token", "token_type"}
      [] c = "UserOut"    -> {"email", "name", "role"}

\* required and missing, null where null is disallowed, or not text
Offending(c) ==
    {k \in DeclaredOf(c) :
        \/ k \in RequiredOf(c) /\ ~Has(k)
        \/ IsNull(k) /\ k \notin NullableOf(c)
        \/ Has(k) /\ source.data[k].kind \notin {"str", "none"}}

ValidUserCreateInput ==
    /\ cls = "UserCreate" /\ FromMapping
    /\ IsText("email") /\ IsText("password")
    /\ TextOrNullOrOmitted("name") /\ TextOrNullOrOmitted("role")

ValidUserOutObject ==
    /\ cls = "UserOut" /\ FromObject
    /\ IsText("email")
    /\ Has("name") /\ TextOrNullOrOmitted("name")
    /\ Has("role") /\ TextOrNullOrOmitted("role")

----------------------------------------------------------------------------
(* Properties.                                                             *)

\* C1: a UserCreate mapping with text email and password (name and role
\* omitted, null or text) always constructs; the record holds email and
\* password unchanged, and an omitted name or role is null in the record.
C1_UserCreateValidSucceeds ==
    (Built /\ ValidUserCreateInput) =>
        /\ pc = "constructed"
        /\ record.values["email"] = source.data["email"]
        /\ record.values["password"] = source.data["password"]
        /\ \A k \in {"name", "role"} : ~Has(k) => record.values[k] = None

C1_Witness ==
    /\ ValidUserCreateInput /\ pc = "constructed"
    /\ ~Has("name") /\ ~Has("role")
    /\ record.values["name"] = None /\ record.values["role"] = None

\* C2: a UserCreate mapping that omits email, password or both never yields
\* a record: construction fails and the error names every missing one.
C2_UserCreateMissingRequiredFails ==
    (Built /\ cls = "UserCreate" /\ FromMapping
       /\ (~Has("email") \/ ~Has("password"))) =>
        /\ pc = "failed"
        /\ record = NoRecord
        /\ \A k \in {"email", "password"} : ~Has(k) => Missing(k)

C2_Witness ==
    /\ cls = "UserCreate" /\ FromMapping /\ pc = "failed"
    /\ ~Has("email") /\ ~Has("password")
    /\ Missing("email") /\ Missing("password")

\* C3: UserCreate with an integer email and an otherwise valid payload
\* fails with an error that cites email; the integer is not turned into
\* its decimal text.
C3_UserCreateIntEmailFails ==
    (Built /\ cls = "UserCreate" /\ FromMapping
       /\ Has("email") /\ source.data["email"].kind = "int"
       /\ IsText("password")
       /\ TextOrNullOrOmitted("name") /\ TextOrNullOrOmitted("role")) =>
        /\ pc = "failed"
        /\ Cites("email")
        /\ record = NoRecord

C3_Witness ==
    /\ cls = "UserCreate" /\ FromMapping /\ pc = "failed"
    /\ Has("email") /\ source.data["email"] = IntVal(123)
    /\ IsText("password") /\ ~Has("name") /\ ~Has("role")
    /\ errors = {[loc |-> <<"email">>, type |-> "string_type"]}

\* C4: a Token built from a text access_token alone serializes with that
\* access_token and token_type "bearer"; a token_type supplied as text is
\* kept instead of the default.
C4_TokenDefaultsToBearer ==
    (Built /\ cls = "Token" /\ FromMapping /\ IsText("access_token")
       /\ (~Has("token_type") \/ IsText("token_type"))) =>
        /\ pc = "constructed"
        /\ \A i \in DOMAIN dumps :
             /\ dumps[i]["access_token"] = source.data["access_token"]
             /\ dumps[i]["token_type"] =
                  IF Has("token_type") THEN source.data["token_type"]
                                       ELSE Str(bearer)

C4_Witness ==
    /\ cls = "Token" /\ FromMapping /\ pc = "constructed"
    /\ IsText("access_token") /\ ~Has("token_type")
    /\ Len(dumps) >= 1
    /\ dumps[1]["token_type"] = Str(bearer)

\* C5: UserOut built from an object with attributes email (text), name and
\* role (text or null) serializes to exactly the object's three values, a
\* null attribute staying null; a mapping with the same entries gives the
\* same record.
C5_UserOutFromAttributes ==
    (Built /\ ValidUserOutObject) =>
        /\ pc = "constructed"
        /\ record = model_validate(UserOutFields, UserOutConfig,
                       [form |-> "mapping", data |-> source.data]).record
        /\ \A i \in DOMAIN dumps :
             dumps[i] = [k \in {"email", "name", "role"} |-> source.data[k]]

C5_Witness ==
    /\ ValidUserOutObject /\ pc = "constructed"
    /\ IsText("name") /\ IsNull("role")
    /\ Len(dumps) >= 1
    /\ dumps[1]["role"] = None /\ dumps[1]["name"] = source.data["name"]

\* C6: serializing a constructed record leaves the record as it was, and
\* every serialization of it gives the same mapping as the first.
C6_SerializeIdempotent ==
    [][(pc = "constructed") =>
         /\ record' = record
         /\ \A i \in DOMAIN dumps' : dumps'[i] = dumps'[1]]_vars

C6_Witness ==
    /\ pc = "constructed" /\ Len(dumps) >= 2
    /\ dumps[1] = dumps[2]
    /\ dumps[2] = model_dump(record)

\* C7: for a shape built from a mapping, the fields the ValidationError
\* lists are exactly the offending fields of the input, all of them and
\* no valid one; construction fails exactly when there is one.
C7_ErrorListsExactlyOffending ==
    (Built /\ FromMapping) =>
        /\ {e.loc : e \in errors} = {<<k>> : k \in Offending(cls)}
        /\ (pc = "failed") <=> (Offending(cls) # {})

C7_Witness ==
    /\ cls = "UserCreate" /\ FromMapping /\ pc = "failed"
    /\ ~Has("email")
    /\ Has("password") /\ source.data["password"].kind = "int"
    /\ TextOrNullOrOmitted("name") /\ TextOrNullOrOmitted("role")
    /\ {e.loc : e \in errors} = {<<"email">>, <<"password">>}

\* C8: UserCreate checks no format of email: any text, the empty one and
\* one without "@" included, is stored unchanged, and email is cited by an
\* error only when it is missing, null or not text.
C8_EmailNotFormatChecked ==
    (Built /\ cls = "UserCreate" /\ FromMapping) =>
        /\ ValidUserCreateInput =>
             (pc = "constructed" /\ record.values["email"] = source.data["email"])
        /\ Cites("email") => ~IsText("email")

C8_Witness ==
    /\ ValidUserCreateInput /\ pc = "constructed"
    /\ source.data["email"] = Str(<<>>)
    /\ record.values["email"] = Str(<<>>)

\* C9: every Token record has a text token_type: an omitted token_type is
\* the default, an explicit null token_type fails citing token_type, and a
\* missing or null access_token fails citing access_token.
C9_TokenTypeAlwaysText ==
    (Built /\ cls = "Token") =>
        /\ pc = "constructed" =>
             /\ record.values["token_type"].kind = "str"
             /\ ~Has("token_type") => record.values["token_type"] = Str(bearer)
        /\ (FromMapping /\ IsNull("token_type")) =>
             (pc = "failed" /\ Cites("token_type"))
        /\ (FromMapping /\ (~Has("access_token") \/ IsNull("access_token"))) =>
             (pc = "failed" /\ Cites("access_token"))

C9_Witness ==
    /\ cls = "Token" /\ FromMapping /\ pc = "failed"
    /\ IsText("access_token") /\ IsNull("token_type")
    /\ errors = {[loc |-> <<"token_type">>, type |-> "string_type"]}

\* C10: a serialized UserOut has exactly the keys email, name and role: an
\* extra key or attribute of the source (the password) neither stops the
\* construction nor reaches the record or its serialization.
C10_UserOutDropsExtras ==
    (Built /\ cls = "UserOut") =>
        /\ (IsText("email") /\ TextOrNullOrOmitted("name")
              /\ TextOrNullOrOmitted("role")) => pc = "constructed"
        /\ pc = "constructed" =>
             /\ DOMAIN record.values = {"email", "name", "role"}
             /\ DOMAIN record.extra = {}
             /\ \A i \in DOMAIN dumps : DOMAIN dumps[i] = {"email", "name", "role"}

C10_Witness ==
    /\ cls = "UserOut" /\ pc = "constructed"
    /\ Has("password")
    /\ Len(dumps) >= 1
    /\ DOMAIN dumps[1] = {"email", "name", "role"}

====
